---- MODULE Spec2Model ----
(***************************************************************************)
(* State-synchronisation and command-dispatch layer of folding-control     *)
(* (src/server.js): the key normaliser, the document patcher, the          *)
(* connection registry (fahConnections / machineData) and the command      *)
(* router (fahWebSocketCommand / fahRequest) with its HTTP fallback.       *)
(***************************************************************************)
EXTENDS Integers, Sequences, FiniteSets, TLC

(***************************************************************************)
(* JSON values.  Every value is a tagged record, so that values of         *)
(* different JavaScript types can be compared.  Text is a sequence of      *)
(* one-character strings, so that normalizePropertyKey can look at the     *)
(* characters.  A JavaScript object is a function from property names      *)
(* (text) to values; an array is a sequence whose holes are Undef.         *)
(***************************************************************************)
Undef == [t |-> "undefined"]
Null == [t |-> "null"]
Num(n) == [t |-> "num", n |-> n]
Str(s) == [t |-> "str", s |-> s]
Bool(b) == [t |-> "bool", b |-> b]
Map(f) == [t |-> "map", m |-> f]
List(s) == [t |-> "list", l |-> s]
\* A frame whose text JSON.parse rejects.
Undecodable == [t |-> "undecodable"]

EmptyMap == Map(<<>>)
EmptyList == List(<<>>)

\* typeof v === 'object' && v !== null
IsContainer(v) == v.t \in {"map", "list"}
\* v === undefined || v === null
IsNullish(v) == v.t \in {"undefined", "null"}
\* JavaScript truthiness, as used by `if (v)` and `v || d`
Truthy(v) ==
  CASE v.t \in {"undefined", "null"} -> FALSE
    [] v.t = "num" -> v.n # 0
    [] v.t = "str" -> Len(v.s) > 0
    [] v.t = "bool" -> v.b
    [] OTHER -> TRUE

Digits == <<"0", "1", "2", "3", "4", "5", "6", "7", "8", "9">>

RECURSIVE NatStr(_)
NatStr(n) == IF n < 10 THEN <<Digits[n + 1]>> ELSE NatStr(n \div 10) \o <<Digits[(n % 10) + 1]>>

\* String(n) for an integer n
IntStr(n) == IF n < 0 THEN <<"-">> \o NatStr(0 - n) ELSE NatStr(n)

\* The property name obj[key] uses on a plain object: text as it is, a
\* number as its decimal text.
PropName(key) == IF key.t = "num" THEN IntStr(key.n) ELSE key.s

\* The longest key normalizePropertyKey rewrites.
ShortKeyMax == 16

\* A normalizer whose limit excludes keys of exactly ShortKeyMax characters
normalizePropertyKeyBelow(key) ==
  IF key.t = "str" /\ Len(key.s) > 0 /\ Len(key.s) < ShortKeyMax
  THEN Str([i \in 1..Len(key.s) |-> IF key.s[i] = "-" THEN "_" ELSE key.s[i]])
  ELSE key

\* normalizePropertyKey(key)
normalizePropertyKey(key) ==
  IF key.t = "str" /\ Len(key.s) > 0 /\ Len(key.s) <= ShortKeyMax
  THEN Str([i \in 1..Len(key.s) |-> IF key.s[i] = "-" THEN "_" ELSE key.s[i]])
  ELSE key

\* JSON.parse(JSON.stringify(v)): array holes become null, object
\* properties holding undefined are dropped.
RECURSIVE Clone(_)
Clone(v) ==
  CASE v.t = "map" ->
         Map([p \in {q \in DOMAIN v.m : v.m[q].t # "undefined"} |-> Clone(v.m[p])])
    [] v.t = "list" ->
         List([i \in 1..Len(v.l) |-> IF v.l[i].t = "undefined" THEN Null ELSE Clone(v.l[i])])
    [] OTHER -> v

\* obj[key] for a container obj.  On an array only a number from 0 is an
\* index (the textual keys of this model are not numerals).
Get(obj, key) ==
  IF obj.t = "map"
  THEN IF PropName(key) \in DOMAIN obj.m THEN obj.m[PropName(key)] ELSE Undef
  ELSE IF key.t = "num" /\ key.n >= 0 /\ key.n < Len(obj.l) THEN obj.l[key.n + 1] ELSE Undef

\* obj[key] = v for a container obj.  An array written past its end grows
\* and leaves holes; an array written at a key that is no index gets a named
\* property that JSON serialisation does not show, so its elements stay.
Put(obj, key, v) ==
  IF obj.t = "map"
  THEN Map([p \in DOMAIN obj.m \cup {PropName(key)} |->
              IF p = PropName(key) THEN v ELSE obj.m[p]])
  ELSE IF key.t = "num" /\ key.n >= 0
       THEN List([i \in 1..(IF key.n + 1 > Len(obj.l) THEN key.n + 1 ELSE Len(obj.l)) |->
                    IF i = key.n + 1 THEN v
                    ELSE IF i <= Len(obj.l) THEN obj.l[i] ELSE Undef])
       ELSE obj

\* `return currentState` from inside the traversal
Abort == [ok |-> FALSE, v |-> Undef]

\* The final update at the target location (server.js 141-173)
ApplyFinal(currentObject, targetKey, newValue) ==
  IF currentObject.t = "list"
  THEN CASE targetKey = Num(-1) -> List(Append(currentObject.l, newValue))
         [] targetKey = Num(-2) ->
              IF newValue.t = "list" THEN List(currentObject.l \o newValue.l) ELSE currentObject
         [] targetKey \notin {Num(-1), Num(-2)} /\ newValue = Null ->
              IF targetKey.t = "num" /\ targetKey.n >= 0 /\ targetKey.n < Len(currentObject.l)
              THEN List([i \in 1..(Len(currentObject.l) - 1) |->
                           IF i <= targetKey.n THEN currentObject.l[i] ELSE currentObject.l[i + 1]])
              ELSE currentObject
         [] OTHER -> Put(currentObject, targetKey, newValue)
  ELSE IF newValue = Null
       THEN Map([p \in DOMAIN currentObject.m \ {PropName(targetKey)} |-> currentObject.m[p]])
       ELSE Put(currentObject, targetKey, newValue)

\* The traversal loop and the final update (server.js 107-173), from path
\* position pathIndex on, as a function of the container reached.
RECURSIVE Walk(_, _, _)
Walk(currentObject, updateArray, pathIndex) ==
  IF ~IsContainer(currentObject) THEN Abort
  ELSE IF pathIndex <= Len(updateArray) - 2
  THEN LET pathKey == normalizePropertyKey(updateArray[pathIndex])
           found == Get(currentObject, pathKey)
           nextElement == updateArray[pathIndex + 1]
           child == IF IsNullish(found)
                    THEN (IF nextElement.t = "num" THEN EmptyList ELSE EmptyMap)
                    ELSE found
           r == Walk(child, updateArray, pathIndex + 1)
       IN IF r.ok THEN [ok |-> TRUE, v |-> Put(currentObject, pathKey, r.v)] ELSE Abort
  ELSE [ok |-> TRUE,
        v |-> ApplyFinal(currentObject, normalizePropertyKey(updateArray[pathIndex]),
                         updateArray[pathIndex + 1])]

\* applyStateUpdate(currentState, updateArray); updateArray is any JSON value
applyStateUpdate(currentState, updateArray) ==
  IF updateArray.t # "list" \/ Len(updateArray.l) < 2 THEN currentState
  ELSE LET cs == IF currentState.t # "map" THEN EmptyMap ELSE currentState
           r == Walk(Clone(cs), updateArray.l, 1)
       IN IF r.ok THEN r.v ELSE cs

\* A handler that stores every decoded frame that is no list
messageHandlerStoresScalars(stored, data) ==
  IF data = Undecodable THEN stored
  ELSE LET currentState == IF ~Truthy(stored) \/ ~IsContainer(stored) THEN EmptyMap ELSE stored
       IN IF data.t = "list"
          THEN LET updatedState == applyStateUpdate(Clone(currentState), data)
               IN IF Truthy(updatedState) THEN updatedState ELSE stored
          ELSE IF Truthy(data) THEN data
          ELSE stored

\* messageHandler(rawData): the value machineData holds for the key after
\* the frame, given the value it held before (Undef: no entry).
messageHandler(stored, data) ==
  IF data = Undecodable THEN stored
  ELSE LET currentState == IF ~Truthy(stored) \/ ~IsContainer(stored) THEN EmptyMap ELSE stored
       IN IF data.t = "list"
          THEN LET updatedState == applyStateUpdate(Clone(currentState), data)
               IN IF Truthy(updatedState) THEN updatedState ELSE stored
          ELSE IF data.t = "map" THEN data
          ELSE stored

(***************************************************************************)
(* applyStateUpdate on the heap.  JavaScript passes objects and arrays by  *)
(* reference: here the heap is a sequence of cells (an object: a function  *)
(* from property names to slots, an array: a sequence of slots and the     *)
(* properties written to it under keys that are no index), a slot is a     *)
(* scalar value or a reference to a cell, and applyStateUpdate is given    *)
(* the slots of its arguments and returns the heap it leaves and the slot  *)
(* it returns.                                                             *)
(***************************************************************************)
Ref(a) == [t |-> "ref", a |-> a]
IsRef(slot) == slot.t = "ref"

\* The value a slot stands for
RECURSIVE Load(_, _)
Load(h, slot) ==
  IF ~IsRef(slot) THEN slot
  ELSE LET cell == h[slot.a]
       IN IF cell.t = "map" THEN Map([p \in DOMAIN cell.m |-> Load(h, cell.m[p])])
          ELSE List([i \in 1..Len(cell.l) |-> Load(h, cell.l[i])])

\* A value built on the heap from new cells, as JSON.parse builds it
RECURSIVE Alloc(_, _), AllocProps(_, _, _, _), AllocItems(_, _, _, _)
Alloc(h, v) ==
  CASE v.t = "map" -> AllocProps(h, v.m, DOMAIN v.m, <<>>)
    [] v.t = "list" -> AllocItems(h, v.l, 1, <<>>)
    [] OTHER -> [h |-> h, slot |-> v]

AllocProps(h, m, names, done) ==
  IF names = {}
  THEN [h |-> Append(h, [t |-> "map", m |-> done]), slot |-> Ref(Len(h) + 1)]
  ELSE LET p == CHOOSE q \in names : TRUE
           r == Alloc(h, m[p])
       IN AllocProps(r.h, m, names \ {p}, done @@ (p :> r.slot))

AllocItems(h, l, i, done) ==
  IF i > Len(l)
  THEN [h |-> Append(h, [t |-> "list", l |-> done, named |-> <<>>]), slot |-> Ref(Len(h) + 1)]
  ELSE LET r == Alloc(h, l[i])
       IN AllocItems(r.h, l, i + 1, Append(done, r.slot))

\* A working copy that is the object itself
SameObject(h, slot) == [h |-> h, slot |-> slot]

\* JSON.parse(JSON.stringify(currentState)) (99): the text of the value,
\* parsed into new cells
ParseStringify(h, slot) == Alloc(h, Clone(Load(h, slot)))

\* cell[key] read from a cell, and cell[key] = slot written to it
GetSlot(cell, key) ==
  IF cell.t = "map"
  THEN IF PropName(key) \in DOMAIN cell.m THEN cell.m[PropName(key)] ELSE Undef
  ELSE IF key.t = "num" /\ key.n >= 0
       THEN IF key.n < Len(cell.l) THEN cell.l[key.n + 1] ELSE Undef
       ELSE IF PropName(key) \in DOMAIN cell.named THEN cell.named[PropName(key)] ELSE Undef

PutSlot(cell, key, slot) ==
  IF cell.t = "map"
  THEN [cell EXCEPT !.m = [p \in DOMAIN cell.m \cup {PropName(key)} |->
                             IF p = PropName(key) THEN slot ELSE cell.m[p]]]
  ELSE IF key.t = "num" /\ key.n >= 0
       THEN [cell EXCEPT !.l =
               [i \in 1..(IF key.n + 1 > Len(cell.l) THEN key.n + 1 ELSE Len(cell.l)) |->
                  IF i = key.n + 1 THEN slot
                  ELSE IF i <= Len(cell.l) THEN cell.l[i] ELSE Undef]]
       ELSE [cell EXCEPT !.named = [p \in DOMAIN cell.named \cup {PropName(key)} |->
                                      IF p = PropName(key) THEN slot ELSE cell.named[p]]]

\* A final update whose bulk append pushes its value as one element
FinalOnCellBulkAsOne(h, cell, targetKey, newValue) ==
  IF cell.t = "list"
  THEN CASE targetKey \in {Num(-1), Num(-2)} -> [cell EXCEPT !.l = Append(@, newValue)]
         [] targetKey \notin {Num(-1), Num(-2)} /\ newValue = Null ->
              IF targetKey.t = "num" /\ targetKey.n >= 0 /\ targetKey.n < Len(cell.l)
              THEN [cell EXCEPT !.l = [i \in 1..(Len(cell.l) - 1) |->
                                         IF i <= targetKey.n THEN cell.l[i] ELSE cell.l[i + 1]]]
              ELSE cell
         [] OTHER -> PutSlot(cell, targetKey, newValue)
  ELSE IF newValue = Null
       THEN [cell EXCEPT !.m = [p \in DOMAIN cell.m \ {PropName(targetKey)} |-> cell.m[p]]]
       ELSE PutSlot(cell, targetKey, newValue)

\* A final update that stores null under a deleted key of an object
FinalOnCellKeepsKey(h, cell, targetKey, newValue) ==
  IF cell.t = "list"
  THEN CASE targetKey = Num(-1) -> [cell EXCEPT !.l = Append(@, newValue)]
         [] targetKey = Num(-2) ->
              IF IsRef(newValue) /\ h[newValue.a].t = "list"
              THEN [cell EXCEPT !.l = @ \o h[newValue.a].l] ELSE cell
         [] targetKey \notin {Num(-1), Num(-2)} /\ newValue = Null ->
              IF targetKey.t = "num" /\ targetKey.n >= 0 /\ targetKey.n < Len(cell.l)
              THEN [cell EXCEPT !.l = [i \in 1..(Len(cell.l) - 1) |->
                                         IF i <= targetKey.n THEN cell.l[i] ELSE cell.l[i + 1]]]
              ELSE cell
         [] OTHER -> PutSlot(cell, targetKey, newValue)
  ELSE PutSlot(cell, targetKey, newValue)

\* A final update whose delete by index empties the place and keeps it
FinalOnCellKeepsPlace(h, cell, targetKey, newValue) ==
  IF cell.t = "list"
  THEN CASE targetKey = Num(-1) -> [cell EXCEPT !.l = Append(@, newValue)]
         [] targetKey = Num(-2) ->
              IF IsRef(newValue) /\ h[newValue.a].t = "list"
              THEN [cell EXCEPT !.l = @ \o h[newValue.a].l] ELSE cell
         [] targetKey \notin {Num(-1), Num(-2)} /\ newValue = Null ->
              IF targetKey.t = "num" /\ targetKey.n >= 0 /\ targetKey.n < Len(cell.l)
              THEN [cell EXCEPT !.l[targetKey.n + 1] = Null]
              ELSE cell
         [] OTHER -> PutSlot(cell, targetKey, newValue)
  ELSE IF newValue = Null
       THEN [cell EXCEPT !.m = [p \in DOMAIN cell.m \ {PropName(targetKey)} |-> cell.m[p]]]
       ELSE PutSlot(cell, targetKey, newValue)

\* The cell after the final update (141-173)
FinalOnCell(h, cell, targetKey, newValue) ==
  IF cell.t = "list"
  THEN CASE targetKey = Num(-1) -> [cell EXCEPT !.l = Append(@, newValue)]
         [] targetKey = Num(-2) ->
              IF IsRef(newValue) /\ h[newValue.a].t = "list"
              THEN [cell EXCEPT !.l = @ \o h[newValue.a].l] ELSE cell
         [] targetKey \notin {Num(-1), Num(-2)} /\ newValue = Null ->
              IF targetKey.t = "num" /\ targetKey.n >= 0 /\ targetKey.n < Len(cell.l)
              THEN [cell EXCEPT !.l = [i \in 1..(Len(cell.l) - 1) |->
                                         IF i <= targetKey.n THEN cell.l[i] ELSE cell.l[i + 1]]]
              ELSE cell
         [] OTHER -> PutSlot(cell, targetKey, newValue)
  ELSE IF newValue = Null
       THEN [cell EXCEPT !.m = [p \in DOMAIN cell.m \ {PropName(targetKey)} |-> cell.m[p]]]
       ELSE PutSlot(cell, targetKey, newValue)

\* A traversal that creates an array only for a next element from 0 on
RECURSIVE WalkHeapFromZero(_, _, _, _)
WalkHeapFromZero(h, currentObject, updateArray, pathIndex) ==
  IF ~IsRef(currentObject) THEN [h |-> h, ok |-> FALSE]
  ELSE IF pathIndex <= Len(updateArray) - 2
  THEN LET pathKey == normalizePropertyKey(updateArray[pathIndex])
           nextElement == updateArray[pathIndex + 1]
           created == IsNullish(GetSlot(h[currentObject.a], pathKey))
           fresh == IF nextElement.t = "num" /\ nextElement.n >= 0
                    THEN [t |-> "list", l |-> <<>>, named |-> <<>>]
                    ELSE [t |-> "map", m |-> <<>>]
           h1 == IF created
                 THEN [Append(h, fresh) EXCEPT
                         ![currentObject.a] = PutSlot(@, pathKey, Ref(Len(h) + 1))]
                 ELSE h
       IN WalkHeapFromZero(h1, GetSlot(h1[currentObject.a], pathKey), updateArray, pathIndex + 1)
  ELSE [h |-> [h EXCEPT ![currentObject.a] =
                 FinalOnCell(h, @, normalizePropertyKey(updateArray[pathIndex]),
                             updateArray[pathIndex + 1])],
        ok |-> TRUE]

\* The traversal loop and the final update (107-173) from path position
\* pathIndex on; currentObject is a slot, updateArray the slots of the
\* operation.  The result is the heap left and whether `state` is returned.
RECURSIVE WalkHeap(_, _, _, _)
WalkHeap(h, currentObject, updateArray, pathIndex) ==
  IF ~IsRef(currentObject) THEN [h |-> h, ok |-> FALSE]
  ELSE IF pathIndex <= Len(updateArray) - 2
  THEN LET pathKey == normalizePropertyKey(updateArray[pathIndex])
           nextElement == updateArray[pathIndex + 1]
           created == IsNullish(GetSlot(h[currentObject.a], pathKey))
           fresh == IF nextElement.t = "num" THEN [t |-> "list", l |-> <<>>, named |-> <<>>]
                    ELSE [t |-> "map", m |-> <<>>]
           h1 == IF created
                 THEN [Append(h, fresh) EXCEPT
                         ![currentObject.a] = PutSlot(@, pathKey, Ref(Len(h) + 1))]
                 ELSE h
       IN WalkHeap(h1, GetSlot(h1[currentObject.a], pathKey), updateArray, pathIndex + 1)
  ELSE [h |-> [h EXCEPT ![currentObject.a] =
                 FinalOnCell(h, @, normalizePropertyKey(updateArray[pathIndex]),
                             updateArray[pathIndex + 1])],
        ok |-> TRUE]

\* !Array.isArray(updateArray) || updateArray.length < 2 (89)
Malformed(h, updateArray) ==
  ~IsRef(updateArray) \/ h[updateArray.a].t # "list" \/ Len(h[updateArray.a].l) < 2

\* A patcher that returns its working copy when the path is blocked
PatchOnHeapReturnsCopy(h, currentState, updateArray) ==
  LET isObject == IsRef(currentState) /\ h[currentState.a].t = "map"
      h1 == IF isObject THEN h ELSE Append(h, [t |-> "map", m |-> <<>>])
      cs == IF isObject THEN currentState ELSE Ref(Len(h) + 1)
      state == ParseStringify(h1, cs)
      r == WalkHeap(state.h, state.slot, h[updateArray.a].l, 1)
  IN [h |-> r.h, slot |-> state.slot]

\* applyStateUpdate after its validation (93-175)
PatchOnHeap(h, currentState, updateArray) ==
  LET isObject == IsRef(currentState) /\ h[currentState.a].t = "map"
      h1 == IF isObject THEN h ELSE Append(h, [t |-> "map", m |-> <<>>])
      cs == IF isObject THEN currentState ELSE Ref(Len(h) + 1)
      state == ParseStringify(h1, cs)
      r == WalkHeap(state.h, state.slot, h[updateArray.a].l, 1)
  IN [h |-> r.h, slot |-> IF r.ok THEN state.slot ELSE cs]

\* An applyStateUpdate that initializes the state before it validates the
\* operation
applyStateUpdateInitializesFirst(h, currentState, updateArray) ==
  IF Malformed(h, updateArray)
  THEN IF IsRef(currentState) /\ h[currentState.a].t = "map"
       THEN [h |-> h, slot |-> currentState]
       ELSE [h |-> Append(h, [t |-> "map", m |-> <<>>]), slot |-> Ref(Len(h) + 1)]
  ELSE PatchOnHeap(h, currentState, updateArray)

\* applyStateUpdate(currentState, updateArray) (87-176) on heap h
applyStateUpdateOnHeap(h, currentState, updateArray) ==
  IF Malformed(h, updateArray) THEN [h |-> h, slot |-> currentState]
  ELSE PatchOnHeap(h, currentState, updateArray)

(***************************************************************************)
(* Projections of a document (fahRequest 347-350, 357-365, 372-388 and     *)
(* 410-437).  A projection either yields data or raises a TypeError.       *)
(***************************************************************************)
kLog == <<"l", "o", "g">>
kUnits == <<"u", "n", "i", "t", "s">>
kSlot == <<"s", "l", "o", "t">>
kGroups == <<"g", "r", "o", "u", "p", "s">>
kSlots == <<"s", "l", "o", "t", "s">>

Yields(d) == [ok |-> TRUE, data |-> d]
Raises == [ok |-> FALSE, data |-> Undef]

\* v.name for any value v that is not null or undefined
Field(v, name) == IF v.t = "map" THEN Get(v, Str(name)) ELSE Undef

\* a || b
OrElse(a, b) == IF Truthy(a) THEN a ELSE b

\* units.filter(u => u.slot === slotIndex): filter exists on arrays only,
\* skips holes, and u.slot raises on a null element.
FilterSlot(units, slotIndex) ==
  IF units.t # "list" THEN Raises
  ELSE IF \E i \in 1..Len(units.l) : units.l[i] = Null THEN Raises
  ELSE Yields(List(SelectSeq(units.l,
         LAMBDA u : u.t # "undefined" /\ Field(u, kSlot) = Num(slotIndex))))

\* The elements `...v` spreads: an array's elements, a string's characters;
\* other values are not iterable.
Spread(v) ==
  CASE v.t = "list" -> Yields(List(v.l))
    [] v.t = "str" -> Yields(List([i \in 1..Len(v.s) |-> Str(<<v.s[i]>>)]))
    [] OTHER -> Raises

\* The members `for (name in groups)` visits, as a set of values: the
\* properties of an object, the elements of an array that are not holes,
\* the characters of a string.
Members(groups) ==
  CASE groups.t = "map" -> {groups.m[p] : p \in DOMAIN groups.m}
    [] groups.t = "list" -> {groups.l[i] : i \in {j \in 1..Len(groups.l) : groups.l[j].t # "undefined"}}
    [] groups.t = "str" -> {Str(<<groups.s[i]>>) : i \in 1..Len(groups.s)}
    [] OTHER -> {}

\* The slots of every group, one group after the other.  The objects of this
\* model do not record insertion order: groups are taken in the order CHOOSE
\* enumerates them.
RECURSIVE FlattenSlots(_)
FlattenSlots(gs) ==
  IF gs = {} THEN Yields(EmptyList)
  ELSE LET group == CHOOSE g \in gs : TRUE
           rest == FlattenSlots(gs \ {group})
           own == IF IsNullish(group) THEN Raises
                  ELSE IF Truthy(Field(group, kSlots)) THEN Spread(Field(group, kSlots))
                  ELSE Yields(EmptyList)
       IN IF own.ok /\ rest.ok THEN Yields(List(own.data.l \o rest.data.l)) ELSE Raises

\* The view of machineState an endpoint returns
Projection(endpoint, machineState) ==
  CASE endpoint = "info" -> Yields(machineState)
    [] endpoint = "log" -> Yields(OrElse(Field(machineState, kLog), EmptyList))
    [] endpoint = "units" -> Yields(OrElse(Field(machineState, kUnits), EmptyList))
    [] endpoint = "queue/0" -> FilterSlot(OrElse(Field(machineState, kUnits), EmptyList), 0)
    [] endpoint = "slots" -> FlattenSlots(Members(OrElse(Field(machineState, kGroups), EmptyMap)))
    [] OTHER -> Yields(machineState)

(***************************************************************************)
(* Inputs of the model and its bounds.  A specification draws its inputs   *)
(* and takes its bounds from a record L: the keys in use, the endpoints    *)
(* asked for, the frames daemons send, the errors and HTTP answers of the   *)
(* network, the calls that may run at the same time (slots), the number of *)
(* calls in all, of sockets created and of frames delivered.               *)
(***************************************************************************)
\* `${instanceId}:${host}:${port}` of the configured instances
Keys == {"local:127.0.0.1:7396", "instance-1:10.0.0.2:7396"}
LocalKey == "local:127.0.0.1:7396"

kInfo == <<"i", "n", "f", "o">>
kCpus == <<"c", "p", "u", "s">>
kWorkUnit == <<"w", "o", "r", "k", "-", "u", "n", "i", "t">>
kX == <<"x">>
kProject == <<"p", "r", "o", "j", "e", "c", "t">>

\* The frames a daemon may send: full-state frames, update operations, a
\* list too short to be an operation, a scalar and text that is not JSON.
FullInfo == Map(kInfo :> Map(kCpus :> Num(8)))
FullWorkUnit == Map(kWorkUnit :> Num(1))
OpSetUnit == List(<<Str(kUnits), Num(1), Map(kSlot :> Num(0))>>)
ShortList == List(<<Str(kX)>>)
Frames == {FullInfo, FullWorkUnit, OpSetUnit, ShortList, Num(5), Undecodable}

kWorkUnitN == <<"w", "o", "r", "k", "_", "u", "n", "i", "t">>

\* Text keys for normalizePropertyKey
kSixteen == <<"a", "-", "b", "-", "c", "-", "d", "-", "e", "-", "f", "-", "g", "-", "h", "-">>
kSeventeen == kSixteen \o <<"i">>

\* The keys normalizePropertyKey is called with: empty, short, of 16 and of
\* 17 characters, with and without hyphens, and list indices
PatchKeys ==
  { Str(<<>>), Str(kX), Str(<<"-">>), Str(kWorkUnit), Str(kUnits), Str(kSixteen),
    Str(kSeventeen), Str(kSeventeen \o kWorkUnit), Num(0), Num(3), Num(-1), Num(-2) }

\* The documents applyStateUpdate is called with: maps, and values that are
\* no map (absent, null, a number, a list)
PatchDocs ==
  { Undef, Null, Num(5), EmptyList, EmptyMap, FullInfo, FullWorkUnit,
    Map(kX :> Num(1)),
    Map(kUnits :> List(<<Map(kSlot :> Num(0)), Num(1)>>)),
    Map(kUnits :> List(<<Undef, Num(1)>>)),
    Map((kWorkUnitN :> Num(1)) @@ (kX :> Num(1))),
    Map(kInfo :> Map(kUnits :> List(<<Num(1), Num(2), Num(3)>>))),
    Map((kX :> Str(kInfo)) @@ (kInfo :> Map(kCpus :> Bool(TRUE)))) }

\* The final keys and final values of the operations on a list
FinalKeys == {Num(-1), Num(-2), Num(0), Num(1), Num(5)}
FinalValues == {Null, Num(7), EmptyList, List(<<Num(1), Num(2)>>), Map(kX :> Num(1))}

\* The operations: malformed ones (no list, fewer than 2 elements), and
\* set, delete, append, bulk append, delete by index, nested paths, a path
\* through a scalar and a negative number inside the path
PatchOps ==
  { Num(5), FullInfo, EmptyList, ShortList,
    List(<<Str(kX), Num(2)>>),
    List(<<Str(kX), Null>>),
    List(<<Str(kWorkUnit), Num(1)>>),
    OpSetUnit,
    List(<<Str(kUnits), Num(-1), Num(7)>>),
    List(<<Str(kUnits), Num(-2), List(<<Num(1), Num(2)>>)>>),
    List(<<Str(kUnits), Num(0), Null>>),
    List(<<Str(kX), Str(kInfo), Num(1)>>),
    List(<<Str(kInfo), Str(kCpus), Num(4)>>),
    List(<<Str(kGroups), Num(0), Str(kSlot), Num(1)>>),
    List(<<Str(kUnits), Num(-1), Str(kX), Num(1)>>),
    List(<<Str(kWorkUnit), Null>>),
    List(<<Str(kInfo), Str(kCpus), Null>>),
    List(<<Str(kInfo), Str(kCpus), Str(kX), Num(1)>>),
    List(<<Str(kInfo), Str(kCpus), Str(kX), Str(kX), Num(1)>>),
    List(<<Str(kGroups), Str(kX), Num(1)>>),
    List(<<Str(kGroups), Num(-2), Str(kX), Num(1)>>) }
  \cup {List(<<Str(kUnits), k, v>>) : k \in FinalKeys, v \in FinalValues}
  \cup {List(<<Str(kInfo), Str(kUnits), k, v>>) : k \in FinalKeys, v \in {Null, Num(7)}}

\* The endpoints callers ask for: pause, unpause and config are write
\* commands, the others pure reads.
Endpoints == {"pause", "unpause", "config", "log", "queue/0", "slots", "info"}
WriteEndpoints == {"pause", "unpause", "config"}

\* The errors a WebSocket reports before its handshake completes
ConnectErrors == {"ECONNREFUSED", "Unexpected server response: 404"}
\* The failures of one HTTP attempt
HttpErrors == {"ECONNREFUSED", "HTTP 404: Not Found"}
\* The bodies an HTTP candidate answers with
HttpBodies == {List(<<Map((kSlot :> Num(0)) @@ (kProject :> Num(1)))>>), EmptyMap}

\* The router: one call at a time, every endpoint
RouterOps == {1}
RouterCalls == 2
RouterSockets == 1
RouterFrames == 2
RouterLim ==
  [keys |-> {LocalKey}, endpoints |-> Endpoints, frames |-> {FullInfo, OpSetUnit},
   connectErrors |-> ConnectErrors, httpErrors |-> HttpErrors, httpBodies |-> HttpBodies,
   slots |-> RouterOps, calls |-> RouterCalls, sockets |-> RouterSockets,
   frameCount |-> RouterFrames]

\* The registry: concurrent calls for one key, one read and one write endpoint
RegistryOps == {1, 2}
RegistrySockets == 2
RegistryFrames == 1
RegistryLim ==
  [keys |-> {LocalKey}, endpoints |-> {"info", "pause", "log"}, frames |-> {FullInfo},
   connectErrors |-> {"ECONNREFUSED"}, httpErrors |-> {"ECONNREFUSED"},
   httpBodies |-> {EmptyMap},
   slots |-> RegistryOps, calls |-> Cardinality(RegistryOps), sockets |-> RegistrySockets,
   frameCount |-> RegistryFrames]

\* Folding: one connection, every frame
FoldOps == {1}
FoldCalls == 1
FoldSockets == 1
FoldFrames == 3
FoldLim ==
  [keys |-> {LocalKey}, endpoints |-> {"info", "pause", "log"}, frames |-> Frames,
   connectErrors |-> {"ECONNREFUSED"}, httpErrors |-> {"ECONNREFUSED"},
   httpBodies |-> {EmptyMap},
   slots |-> FoldOps, calls |-> FoldCalls, sockets |-> FoldSockets,
   frameCount |-> FoldFrames]

\* Completion: one call, with room for the two acquisitions a call makes at
\* most (the log branch acquires twice, 333 and 405)
LiveOps == {1}
LiveCalls == 1
LiveFrames == 1
LiveLim ==
  [keys |-> {LocalKey}, endpoints |-> {"info", "pause", "log"}, frames |-> {FullInfo},
   connectErrors |-> {"ECONNREFUSED"}, httpErrors |-> {"ECONNREFUSED"},
   httpBodies |-> {EmptyMap},
   slots |-> LiveOps, calls |-> LiveCalls, sockets |-> 2 * LiveCalls,
   frameCount |-> LiveFrames]

\* The instance list and the proxy route: one call at a time
InstancesOps == {1}
InstancesSockets == 1
InstancesFrames == 1
MaxInstances == 3
InstancesLim ==
  [keys |-> Keys, endpoints |-> {"info", "pause", "log"}, frames |-> {FullInfo},
   connectErrors |-> {"ECONNREFUSED"}, httpErrors |-> {"ECONNREFUSED"},
   httpBodies |-> {EmptyMap},
   slots |-> InstancesOps, calls |-> Cardinality(InstancesOps), sockets |-> InstancesSockets,
   frameCount |-> InstancesFrames]

\* Two keys, as the aggregate route uses them (641-648): a call for each
\* key, the sockets of both keys alive at the same time
AggregateOps == {1}
AggregateSockets == 2
AggregateFrames == 2
AggregateLim ==
  [keys |-> Keys, endpoints |-> {"info", "pause", "log"}, frames |-> {FullInfo},
   connectErrors |-> {"ECONNREFUSED"}, httpErrors |-> {"ECONNREFUSED"},
   httpBodies |-> {EmptyMap},
   slots |-> AggregateOps, calls |-> Cardinality(Keys),
   sockets |-> AggregateSockets, frameCount |-> AggregateFrames]

(***************************************************************************)
(* Results and outbound frames.                                            *)
(***************************************************************************)
Pending == [pending |-> TRUE]
Success(d) == [success |-> TRUE, data |-> d]
Failure(e) == [success |-> FALSE, error |-> e]

NoState == "No machine state available"
RefusedOrTimedOut == "Connection refused or timed out"
ConnectTimeoutMsg == "WebSocket connection timeout"
InitialStateTimeout == "Timeout waiting for initial state"
TypeErrorMsg == "TypeError"
InstanceNotFound == "Instance not found"
InstanceDisabled == "Instance is disabled"

\* {cmd: 'log', time, enable: true}
LogEnable == [cmd |-> "log", enable |-> TRUE]

\* The command frame of a write endpoint (fahRequest 319-326, route 560)
CommandFrame(endpoint) ==
  IF endpoint = "config" THEN [cmd |-> "config"]
  ELSE [cmd |-> "state", state |-> IF endpoint = "pause" THEN "pause" ELSE "fold"]

\* The candidates with the bare path tried first
HttpCandidatesBareFirst(endpoint) ==
  << [prefix |-> "/", endpoint |-> endpoint],
     [prefix |-> "/api/", endpoint |-> endpoint],
     [prefix |-> "/api/v1/", endpoint |-> endpoint] >>

\* The URL paths of the HTTP fallback, in the order tried (fahRequest 451-455)
HttpCandidates(endpoint) ==
  << [prefix |-> "/api/", endpoint |-> endpoint],
     [prefix |-> "/", endpoint |-> endpoint],
     [prefix |-> "/api/v1/", endpoint |-> endpoint] >>

(***************************************************************************)
(* The configured instances.                                               *)
(***************************************************************************)
\* The default instance (server.js 23-25)
LocalInstance == [id |-> "local", host |-> "127.0.0.1", port |-> 7396, enabled |-> TRUE]

\* An instance as POST /api/instances creates it (506-512), or as a saved
\* file holds it
RemoteInstance(enabled) ==
  [id |-> "instance-1", host |-> "10.0.0.2", port |-> 7396, enabled |-> enabled]

\* `${instanceId}:${host}:${port}` (181)
KeyOf(instance) == instance.id \o ":" \o instance.host \o ":" \o ToString(instance.port)

\* What fs.readFile and JSON.parse give loadInstances: a list of instances,
\* or an error (no file, or text that is not a JSON list)
Unreadable == "ENOENT"
SavedFiles ==
  { Unreadable, <<>>, <<RemoteInstance(TRUE)>>, <<RemoteInstance(FALSE)>>,
    <<[LocalInstance EXCEPT !.host = "10.0.0.9"], RemoteInstance(TRUE)>> }

\* The identifiers requests name, one of them never configured
InstanceIds == {"local", "instance-1", "instance-9"}

\* list.filter(i => i.id !== 'local') (34)
RECURSIVE WithoutLocal(_)
WithoutLocal(list) ==
  IF list = <<>> THEN <<>>
  ELSE (IF Head(list).id # "local" THEN <<Head(list)>> ELSE <<>>) \o WithoutLocal(Tail(list))

\* The instance list after loadInstances read file (28-44)
loadInstances(list, file) ==
  IF file = Unreadable THEN list
  ELSE LET localInstance == list[CHOOSE i \in 1..Len(list) :
                                   /\ list[i].id = "local"
                                   /\ \A j \in 1..(i - 1) : list[j].id # "local"]
       IN <<localInstance>> \o WithoutLocal(file)

\* instances.findIndex(i => i.id === id) (522, 542), 0 for -1 and undefined
FindIndex(list, id) ==
  LET found == {i \in 1..Len(list) : list[i].id = id}
  IN IF found = {} THEN 0 ELSE CHOOSE i \in found : \A j \in found : i <= j

\* instances.splice(index, 1) (533)
Splice(list, index) == SubSeq(list, 1, index - 1) \o SubSeq(list, index + 1, Len(list))

\* No pure function was called directly yet
NoCall == [fn |-> "none"]

\* The answers of the routes of /api/instances (503, 516, 525, 530, 535)
NoResponse == [status |-> 0]
Answer(status) == [status |-> status]

\* res.status(status).json({ error }) (503, 525, 530)
Refused(status, error) == [status |-> status, error |-> error]
NameAndHostRequired == "Name and host are required"
CannotRemoveLocal == "Cannot remove local instance"

(***************************************************************************)
(* State.                                                                  *)
(***************************************************************************)
VARIABLES
  fahConnections,  \* key -> the socket registered for it, 0: no entry
  machineData,     \* key -> the document stored for it, Undef: no entry
  sockets,         \* the WebSockets created so far, in creation order
  ops,             \* the calls of the router that are running, by slot
  nCalls,          \* calls started so far
  nFrames,         \* frames delivered so far
  instances,       \* the configured instances, in list order
  response,        \* the answer to the last request of /api/instances
  call             \* the last direct call of a pure function, with its result

vars == <<fahConnections, machineData, sockets, ops, nCalls, nFrames, instances, response,
          call>>

OpIds == DOMAIN ops

IdleOp == [pc |-> "idle", key |-> "", endpoint |-> "", ws |-> 0, http |-> <<>>,
           answers |-> <<>>, result |-> Pending]

Init(L) ==
  /\ fahConnections = [k \in Keys |-> 0]
  /\ machineData = [k \in Keys |-> Undef]
  /\ sockets = <<>>
  /\ ops = [o \in L.slots |-> IdleOp]
  /\ nCalls = 0
  /\ nFrames = 0
  /\ instances = <<LocalInstance>>
  /\ response = NoResponse
  /\ call = NoCall

(***************************************************************************)
(* getFAHConnection(instanceId, host, port), up to the promise it returns. *)
(***************************************************************************)
\* Reuse with the ready state compared against the wrong constant
ReuseWhenConnecting(key) ==
  fahConnections[key] # 0 /\ sockets[fahConnections[key]].readyState = "CONNECTING"

\* server.js 183-187: the registered socket is returned as it is
Reuse(key) ==
  fahConnections[key] # 0 /\ sockets[fahConnections[key]].readyState = "OPEN"

\* new WebSocket(wsUrl) with its connect timeout armed (server.js 196-201)
NewSocket(key) ==
  [key |-> key, readyState |-> "CONNECTING", timeout |-> TRUE, opened |-> FALSE,
   error |-> "", sent |-> <<>>, undecoded |-> 0]

\* The registry after the synchronous part of getFAHConnection: an entry
\* whose socket is not open is removed with its document (server.js 188-190).
AcquireConnections(key) ==
  IF fahConnections[key] # 0 /\ ~Reuse(key)
  THEN [fahConnections EXCEPT ![key] = 0] ELSE fahConnections

AcquireData(key) ==
  IF fahConnections[key] # 0 /\ ~Reuse(key)
  THEN [machineData EXCEPT ![key] = Undef] ELSE machineData

\* The sockets after getFAHConnection: a new one unless one is reused
AcquireSockets(key) ==
  IF Reuse(key) THEN sockets ELSE Append(sockets, NewSocket(key))

\* The socket whose promise getFAHConnection returns
AcquiredSocket(key) ==
  IF Reuse(key) THEN fahConnections[key] ELSE Len(sockets) + 1

\* getFAHConnection can run: the model creates at most L.sockets sockets
CanAcquire(L, key) == Reuse(key) \/ Len(sockets) < L.sockets

Send(socks, s, frame) == [socks EXCEPT ![s].sent = Append(@, frame)]

(***************************************************************************)
(* The router: what a call does when the promise of getFAHConnection       *)
(* settles.                                                                *)
(***************************************************************************)
\* fahRequest 450-456: the first candidate of the HTTP fallback is requested
EnterFallback(op) ==
  [op EXCEPT !.pc = "http", !.http = <<HttpCandidates(op.endpoint)[1]>>]

Done(op, result) == [op EXCEPT !.pc = "done", !.result = result]

\* The result of fahWebSocketCommand reaches its caller: the config route
\* answers with it, fahRequest returns it only when it is a success
\* (fahRequest 394-398).
CommandResult(op, result) ==
  IF op.endpoint = "config" \/ result.success THEN Done(op, result) ELSE EnterFallback(op)

\* The call after `await getFAHConnection(...)` resolved with socket s
Resolved(op, s) ==
  CASE op.pc = "cmd_conn" -> [op EXCEPT !.pc = "cmd_settle", !.ws = s]
    [] op.pc = "log_conn" -> [op EXCEPT !.pc = "log_settle", !.ws = s]
    [] op.pc = "read_conn" -> [op EXCEPT !.pc = "read_settle", !.ws = s]

\* The frames the call sends on the socket it was given
FramesOnResolve(op) ==
  CASE op.pc = "cmd_conn" -> <<CommandFrame(op.endpoint)>>
    [] op.pc = "log_conn" -> <<LogEnable>>
    [] op.pc = "read_conn" -> <<>>

\* The message of the error a failed connect rejects with
\* (fahWebSocketCommand 303-308)
CommandErrorMsg(error) ==
  IF error \in {"ECONNREFUSED", ConnectTimeoutMsg} THEN RefusedOrTimedOut ELSE error

\* A rejection that never reaches the call
RejectedUnheard(op, error) == op

\* The call after `await getFAHConnection(...)` rejected with error
Rejected(op, error) ==
  CASE op.pc = "cmd_conn" -> CommandResult(op, Failure(CommandErrorMsg(error)))
    [] op.pc = "log_conn" -> [op EXCEPT !.pc = "log_settle"]
    [] op.pc = "read_conn" -> Done(op, Failure(error))

\* The calls awaiting the promise of socket s
Waiters(s) == {o \in OpIds : ops[o].ws = s /\ ops[o].pc \in {"cmd_conn", "log_conn", "read_conn"}}

(***************************************************************************)
(* A caller starts a call: the code up to its first await.                 *)
(***************************************************************************)
\* A call takes the lowest free slot
CanStart(L, o) ==
  /\ ops[o].pc = "idle"
  /\ \A p \in 1..(o - 1) : ops[p].pc # "idle"
  /\ nCalls < L.calls

\* The call starts getFAHConnection in state pc (one of the _conn states)
\* and goes on at once when the registered socket is reused.
Acquire(L, o, op) ==
  LET key == op.key
      s == AcquiredSocket(key)
      waiting == [op EXCEPT !.ws = s]
  IN /\ CanAcquire(L, key)
     /\ fahConnections' = AcquireConnections(key)
     /\ machineData' = AcquireData(key)
     /\ IF Reuse(key)
        THEN /\ sockets' = (IF FramesOnResolve(op) = <<>> THEN sockets
                            ELSE Send(sockets, s, FramesOnResolve(op)[1]))
             /\ ops' = [ops EXCEPT ![o] = Resolved(waiting, s)]
        ELSE /\ sockets' = AcquireSockets(key)
             /\ ops' = [ops EXCEPT ![o] = waiting]

\* fahWebSocketCommand for pause, unpause (through fahRequest) and config
StartWrite(L, o, key, endpoint) ==
  /\ CanStart(L, o)
  /\ nCalls' = nCalls + 1
  /\ endpoint \in WriteEndpoints
  /\ Acquire(L, o, [IdleOp EXCEPT !.pc = "cmd_conn", !.key = key, !.endpoint = endpoint])
  /\ UNCHANGED <<nFrames, instances, response, call>>

\* fahRequest for log (327-342)
StartLog(L, o, key) ==
  /\ CanStart(L, o)
  /\ nCalls' = nCalls + 1
  /\ Acquire(L, o, [IdleOp EXCEPT !.pc = "log_conn", !.key = key, !.endpoint = "log"])
  /\ UNCHANGED <<nFrames, instances, response, call>>

\* fahRequest for queue/N, units, slots and info (354-392, 399-405): the view
\* of the stored document when there is one; a TypeError raised by the
\* projection is caught at 445 and the HTTP fallback follows.
StartRead(L, o, key, endpoint) ==
  /\ CanStart(L, o)
  /\ nCalls' = nCalls + 1
  /\ endpoint \notin WriteEndpoints \cup {"log"}
  /\ LET op == [IdleOp EXCEPT !.key = key, !.endpoint = endpoint]
     IN IF machineData[key] # Undef
        THEN LET view == Projection(endpoint, machineData[key])
             IN /\ ops' = [ops EXCEPT ![o] =
                             IF view.ok THEN Done(op, Success(view.data)) ELSE EnterFallback(op)]
                /\ UNCHANGED <<fahConnections, machineData, sockets>>
        ELSE Acquire(L, o, [op EXCEPT !.pc = "read_conn"])
  /\ UNCHANGED <<nFrames, instances, response, call>>

(***************************************************************************)
(* Socket events.                                                          *)
(***************************************************************************)
\* An open handler that resolves the promise before it enables the log, so
\* that the frame of the waiting call goes out first
OpenResolvesFirst(s) ==
  /\ sockets[s].readyState = "CONNECTING"
  /\ LET key == sockets[s].key
         opened == [sockets EXCEPT ![s].readyState = "OPEN", ![s].timeout = FALSE,
                                   ![s].opened = TRUE]
     IN /\ fahConnections' = [fahConnections EXCEPT ![key] = s]
        /\ sockets' = [opened EXCEPT ![s].sent =
                         (IF Waiters(s) = {} THEN <<>>
                          ELSE FramesOnResolve(ops[CHOOSE o \in Waiters(s) : TRUE]))
                         \o <<LogEnable>>]
        /\ ops' = [o \in OpIds |-> IF o \in Waiters(s) THEN Resolved(ops[o], s) ELSE ops[o]]
  /\ UNCHANGED <<machineData, nCalls, nFrames, instances, response, call>>

\* ws.on('open') (234-265), then the call awaiting the promise
Open(s) ==
  /\ sockets[s].readyState = "CONNECTING"
  /\ LET key == sockets[s].key
         opened == [sockets EXCEPT ![s].readyState = "OPEN", ![s].timeout = FALSE,
                                   ![s].opened = TRUE, ![s].sent = <<LogEnable>>]
     IN /\ fahConnections' = [fahConnections EXCEPT ![key] = s]
        /\ sockets' = [opened EXCEPT ![s].sent =
                         @ \o (IF Waiters(s) = {} THEN <<>>
                               ELSE FramesOnResolve(ops[CHOOSE o \in Waiters(s) : TRUE]))]
        /\ ops' = [o \in OpIds |-> IF o \in Waiters(s) THEN Resolved(ops[o], s) ELSE ops[o]]
  /\ UNCHANGED <<machineData, nCalls, nFrames, instances, response, call>>

\* ws.on('error') before the handshake completed (267-270)
ConnectError(s, error) ==
  /\ sockets[s].readyState = "CONNECTING"
  /\ sockets' = [sockets EXCEPT ![s].readyState = "CLOSING", ![s].timeout = FALSE,
                                ![s].error = error]
  /\ ops' = [o \in OpIds |-> IF o \in Waiters(s) THEN Rejected(ops[o], error) ELSE ops[o]]
  /\ UNCHANGED <<fahConnections, machineData, nCalls, nFrames, instances, response, call>>

\* A connect timeout that rejects without ws.close()
ConnectTimeoutKeepsSocket(s) ==
  /\ sockets[s].timeout
  /\ sockets' = [sockets EXCEPT ![s].timeout = FALSE, ![s].error = ConnectTimeoutMsg]
  /\ ops' = [o \in OpIds |-> IF o \in Waiters(s) THEN Rejected(ops[o], ConnectTimeoutMsg) ELSE ops[o]]
  /\ UNCHANGED <<fahConnections, machineData, nCalls, nFrames, instances, response, call>>

\* The connect timeout fires (198-201): ws.close() and reject
ConnectTimeout(s) ==
  /\ sockets[s].timeout
  /\ sockets' = [sockets EXCEPT ![s].readyState = "CLOSING", ![s].timeout = FALSE,
                                ![s].error = ConnectTimeoutMsg]
  /\ ops' = [o \in OpIds |-> IF o \in Waiters(s) THEN Rejected(ops[o], ConnectTimeoutMsg) ELSE ops[o]]
  /\ UNCHANGED <<fahConnections, machineData, nCalls, nFrames, instances, response, call>>

\* A handler that clears the whole registry
CleanUpEveryConnection(key) == [k \in Keys |-> 0]
\* The registry after the close or error handler of an opened socket
\* (254-257, 259-262)
CleanUpConnections(key) == [fahConnections EXCEPT ![key] = 0]
\* A handler that forgets machineData.delete(key)
CleanUpKeepsData(key) == machineData
CleanUpData(key) == [machineData EXCEPT ![key] = Undef]

\* The daemon starts the closing handshake: the socket is CLOSING until its
\* close event
PeerClose(s) ==
  /\ sockets[s].readyState = "OPEN"
  /\ sockets' = [sockets EXCEPT ![s].readyState = "CLOSING"]
  /\ UNCHANGED <<fahConnections, machineData, ops, nCalls, nFrames, instances, response, call>>

\* ws 'error' on an opened socket (259-262; the handler of 267 finds the
\* promise settled)
SocketError(s) ==
  /\ sockets[s].readyState = "OPEN"
  /\ sockets' = [sockets EXCEPT ![s].readyState = "CLOSING", ![s].error = "socket error"]
  /\ fahConnections' = CleanUpConnections(sockets[s].key)
  /\ machineData' = CleanUpData(sockets[s].key)
  /\ UNCHANGED <<ops, nCalls, nFrames, instances, response, call>>

\* ws 'close': the handler of 254-257 is attached to opened sockets only
Close(s) ==
  /\ sockets[s].readyState \in {"OPEN", "CLOSING"}
  /\ sockets' = [sockets EXCEPT ![s].readyState = "CLOSED"]
  /\ IF sockets[s].opened
     THEN /\ fahConnections' = CleanUpConnections(sockets[s].key)
          /\ machineData' = CleanUpData(sockets[s].key)
     ELSE UNCHANGED <<fahConnections, machineData>>
  /\ UNCHANGED <<ops, nCalls, nFrames, instances, response, call>>

\* A message handler without its try: a frame that is not JSON raises out
\* of the 'message' event and the socket goes down with its entries
MessageUncaught(L, s, data) ==
  /\ sockets[s].readyState = "OPEN"
  /\ nFrames < L.frameCount
  /\ nFrames' = nFrames + 1
  /\ IF data = Undecodable
     THEN /\ sockets' = [sockets EXCEPT ![s].readyState = "CLOSING", ![s].undecoded = @ + 1]
          /\ fahConnections' = CleanUpConnections(sockets[s].key)
          /\ machineData' = CleanUpData(sockets[s].key)
     ELSE /\ machineData' = [machineData EXCEPT ![sockets[s].key] = messageHandler(@, data)]
          /\ UNCHANGED <<fahConnections, sockets>>
  /\ UNCHANGED <<ops, nCalls, instances, response, call>>

\* ws 'message' on an opened socket (204-232); undecoded counts the frames
\* whose JSON.parse raised (caught at 226, logged at 229)
Message(L, s, data) ==
  /\ sockets[s].readyState = "OPEN"
  /\ nFrames < L.frameCount
  /\ nFrames' = nFrames + 1
  /\ machineData' = [machineData EXCEPT ![sockets[s].key] = messageHandler(@, data)]
  /\ sockets' = IF data = Undecodable THEN [sockets EXCEPT ![s].undecoded = @ + 1] ELSE sockets
  /\ UNCHANGED <<fahConnections, ops, nCalls, instances, response, call>>

(***************************************************************************)
(* Timers and HTTP answers of the router.                                  *)
(***************************************************************************)
\* fahWebSocketCommand after its 500 ms (297-302)
CommandSettled(o) ==
  /\ ops[o].pc = "cmd_settle"
  /\ LET currentState == machineData[ops[o].key]
     IN ops' = [ops EXCEPT ![o] = CommandResult(@,
                  IF Truthy(currentState) THEN Success(currentState) ELSE Failure(NoState))]
  /\ UNCHANGED <<fahConnections, machineData, sockets, nCalls, nFrames, instances, response, call>>

\* fahRequest for log after its 500 ms (347-353, 399-405)
LogSettled(L, o) ==
  /\ ops[o].pc = "log_settle"
  /\ IF machineData[ops[o].key] # Undef
     THEN /\ ops' = [ops EXCEPT ![o] = Done(@, Success(Projection("log", machineData[ops[o].key]).data))]
          /\ UNCHANGED <<fahConnections, machineData, sockets>>
     ELSE Acquire(L, o, [ops[o] EXCEPT !.pc = "read_conn"])
  /\ UNCHANGED <<nCalls, nFrames, instances, response, call>>

\* fahRequest after its 1000 ms (410-443)
ReadSettled(o) ==
  /\ ops[o].pc = "read_settle"
  /\ LET machineState == machineData[ops[o].key]
         view == Projection(ops[o].endpoint, machineState)
     IN ops' = [ops EXCEPT ![o] =
                  IF ~Truthy(machineState) THEN Done(@, Failure(InitialStateTimeout))
                  ELSE IF view.ok THEN Done(@, Success(view.data))
                  ELSE Done(@, Failure(TypeErrorMsg))]
  /\ UNCHANGED <<fahConnections, machineData, sockets, nCalls, nFrames, instances, response, call>>

\* The message fahRequest returns when the last candidate failed (477-485)
HttpErrorMsg(error) == IF error = "ECONNREFUSED" THEN RefusedOrTimedOut ELSE error

\* An HTTP candidate answers (473-474)
HttpAnswer(o, body) ==
  /\ ops[o].pc = "http"
  /\ ops' = [ops EXCEPT ![o] = Done([@ EXCEPT !.answers = Append(@, [ok |-> TRUE, body |-> body])],
                                      Success(body))]
  /\ UNCHANGED <<fahConnections, machineData, sockets, nCalls, nFrames, instances, response, call>>

\* An HTTP candidate fails (475-487): the next one is requested, or the
\* failure of the last one is returned
HttpFail(o, error) ==
  /\ ops[o].pc = "http"
  /\ LET n == Len(ops[o].http)
         endpoints == HttpCandidates(ops[o].endpoint)
         failed == [ops[o] EXCEPT !.answers = Append(@, [ok |-> FALSE, error |-> error])]
     IN ops' = [ops EXCEPT ![o] =
                  IF n = Len(endpoints) THEN Done(failed, Failure(HttpErrorMsg(error)))
                  ELSE [failed EXCEPT !.http = Append(@, endpoints[n + 1])]]
  /\ UNCHANGED <<fahConnections, machineData, sockets, nCalls, nFrames, instances, response, call>>

\* The caller has the result: the slot is free again
Return(o) ==
  /\ ops[o].pc = "done"
  /\ ops' = [ops EXCEPT ![o] = IdleOp]
  /\ UNCHANGED <<fahConnections, machineData, sockets, nCalls, nFrames, instances, response, call>>

\* The events of the sockets, the timers and the HTTP attempts
Events(L) ==
  \/ \E s \in 1..Len(sockets) : Open(s)
  \/ \E s \in 1..Len(sockets), e \in L.connectErrors : ConnectError(s, e)
  \/ \E s \in 1..Len(sockets) : ConnectTimeout(s)
  \/ \E s \in 1..Len(sockets) : PeerClose(s)
  \/ \E s \in 1..Len(sockets) : SocketError(s)
  \/ \E s \in 1..Len(sockets) : Close(s)
  \/ \E s \in 1..Len(sockets), f \in L.frames : Message(L, s, f)
  \/ \E o \in OpIds : CommandSettled(o)
  \/ \E o \in OpIds : LogSettled(L, o)
  \/ \E o \in OpIds : ReadSettled(o)
  \/ \E o \in OpIds, b \in L.httpBodies : HttpAnswer(o, b)
  \/ \E o \in OpIds, e \in L.httpErrors : HttpFail(o, e)
  \/ \E o \in OpIds : Return(o)

\* Calls of fahRequest and fahWebSocketCommand for the keys of L
Next(L) ==
  \/ \E o \in OpIds, k \in L.keys, e \in L.endpoints : StartWrite(L, o, k, e)
  \/ \E o \in OpIds, k \in L.keys : "log" \in L.endpoints /\ StartLog(L, o, k)
  \/ \E o \in OpIds, k \in L.keys, e \in L.endpoints : StartRead(L, o, k, e)
  \/ Events(L)

(***************************************************************************)
(* The routes of the instance list and the proxy route.                    *)
(***************************************************************************)
\* loadInstances() reads a file (28-44)
LoadInstances(file) ==
  /\ instances' = loadInstances(instances, file)
  /\ UNCHANGED <<fahConnections, machineData, sockets, ops, nCalls, nFrames, response, call>>

\* POST /api/instances (499-517): host is "" when name or host is missing
AddInstance(host) ==
  /\ Len(instances) < MaxInstances
  /\ IF host = ""
     THEN /\ response' = Refused(400, NameAndHostRequired)
          /\ UNCHANGED instances
     ELSE /\ instances' = Append(instances, [RemoteInstance(TRUE) EXCEPT !.host = host])
          /\ response' = Answer(200)
  /\ UNCHANGED <<fahConnections, machineData, sockets, ops, nCalls, nFrames, call>>

\* A removal that does not protect the local instance
RemoveInstanceAny(id) ==
  /\ LET index == FindIndex(instances, id)
     IN IF index = 0
        THEN /\ response' = Refused(404, InstanceNotFound)
             /\ UNCHANGED instances
        ELSE /\ instances' = Splice(instances, index)
             /\ response' = Answer(200)
  /\ UNCHANGED <<fahConnections, machineData, sockets, ops, nCalls, nFrames, call>>

\* DELETE /api/instances/:id (520-536)
RemoveInstance(id) ==
  /\ LET index == FindIndex(instances, id)
     IN IF index = 0
        THEN /\ response' = Refused(404, InstanceNotFound)
             /\ UNCHANGED instances
        ELSE IF instances[index].id = "local"
        THEN /\ response' = Refused(400, CannotRemoveLocal)
             /\ UNCHANGED instances
        ELSE /\ instances' = Splice(instances, index)
             /\ response' = Answer(200)
  /\ UNCHANGED <<fahConnections, machineData, sockets, ops, nCalls, nFrames, call>>

\* A proxy route that does not test instance.enabled
ProxyIgnoresEnabled(L, o, instanceId, endpoint) ==
  LET index == FindIndex(instances, instanceId)
      key == KeyOf(instances[index])
  IN IF index = 0
     THEN /\ CanStart(L, o)
          /\ nCalls' = nCalls + 1
          /\ ops' = [ops EXCEPT ![o] = Done([IdleOp EXCEPT !.endpoint = endpoint],
                                             Failure(InstanceNotFound))]
          /\ UNCHANGED <<fahConnections, machineData, sockets, nFrames, instances, response, call>>
     ELSE IF endpoint \in WriteEndpoints THEN StartWrite(L, o, key, endpoint)
     ELSE IF endpoint = "log" THEN StartLog(L, o, key)
     ELSE StartRead(L, o, key, endpoint)

\* app.all('/api/fah/:instanceId/*') (539-601): the instance is looked up,
\* then fahWebSocketCommand (config, 560) or fahRequest (582) is called
Proxy(L, o, instanceId, endpoint) ==
  LET index == FindIndex(instances, instanceId)
      key == KeyOf(instances[index])
  IN IF index = 0 \/ ~instances[index].enabled
     THEN /\ CanStart(L, o)
          /\ nCalls' = nCalls + 1
          /\ ops' = [ops EXCEPT ![o] = Done([IdleOp EXCEPT !.endpoint = endpoint],
                         Failure(IF index = 0 THEN InstanceNotFound ELSE InstanceDisabled))]
          /\ UNCHANGED <<fahConnections, machineData, sockets, nFrames, instances, response, call>>
     ELSE IF endpoint \in WriteEndpoints THEN StartWrite(L, o, key, endpoint)
     ELSE IF endpoint = "log" THEN StartLog(L, o, key)
     ELSE StartRead(L, o, key, endpoint)

\* Requests to the instance routes and to the proxy route
NextInstances(L) ==
  \/ \E file \in SavedFiles : LoadInstances(file)
  \/ \E host \in {"", "10.0.0.2"} : AddInstance(host)
  \/ \E id \in InstanceIds : RemoveInstance(id)
  \/ \E o \in OpIds, id \in InstanceIds, e \in L.endpoints : Proxy(L, o, id, e)
  \/ Events(L)

\* The router, one call after the other
Spec == Init(RouterLim) /\ [][Next(RouterLim)]_vars
\* Concurrent calls for one key
SpecRegistry == Init(RegistryLim) /\ [][Next(RegistryLim)]_vars
\* One connection and the frames it receives
SpecFold == Init(FoldLim) /\ [][Next(FoldLim)]_vars

\* What the event loop guarantees: the timers of the settle delays
\* (295, 345, 408) and the connect timeout (198) fire, and an HTTP attempt
\* ends within its timeout of 5 s (462, 473-475).
Fairness(L) ==
  /\ \A o \in L.slots :
       /\ WF_vars(CommandSettled(o))
       /\ WF_vars(LogSettled(L, o))
       /\ WF_vars(ReadSettled(o))
       /\ WF_vars((\E b \in L.httpBodies : HttpAnswer(o, b))
                    \/ (\E e \in L.httpErrors : HttpFail(o, e)))
  /\ \A s \in 1..L.sockets : WF_vars(s <= Len(sockets) /\ ConnectTimeout(s))

\* Calls for two keys and the events of their sockets
SpecAggregate == Init(AggregateLim) /\ [][Next(AggregateLim)]_vars

\* The instance list and the calls of the proxy route
SpecInstances == Init(InstancesLim) /\ [][NextInstances(InstancesLim)]_vars

(***************************************************************************)
(* Direct calls of the pure functions.                                     *)
(***************************************************************************)
\* applyStateUpdate(doc, op): the arguments are built on an empty heap, the
\* document first, so that its cells are the first docCells ones
ApplyCall(doc, op) ==
  /\ LET d == Alloc(<<>>, doc)
         u == Alloc(d.h, op)
         r == applyStateUpdateOnHeap(u.h, d.slot, u.slot)
     IN call' = [fn |-> "applyStateUpdate", doc |-> doc, op |-> op,
                 docSlot |-> d.slot, docCells |-> Len(d.h),
                 before |-> u.h, after |-> r.h, result |-> r.slot]
  /\ UNCHANGED <<fahConnections, machineData, sockets, ops, nCalls, nFrames, instances, response>>

\* normalizePropertyKey(key)
NormalizeCall(key) ==
  /\ call' = [fn |-> "normalizePropertyKey", key |-> key, result |-> normalizePropertyKey(key)]
  /\ UNCHANGED <<fahConnections, machineData, sockets, ops, nCalls, nFrames, instances, response>>

NextPure ==
  \/ \E doc \in PatchDocs, op \in PatchOps : ApplyCall(doc, op)
  \/ \E key \in PatchKeys : NormalizeCall(key)

\* The pure functions called with the documents, operations and keys above
SpecPure == Init(FoldLim) /\ [][NextPure]_vars

\* One call under the guarantees of the event loop
SpecLive == Init(LiveLim) /\ [][Next(LiveLim)]_vars /\ Fairness(LiveLim)

(***************************************************************************)
(* Vocabulary of the properties.                                           *)
(***************************************************************************)
SocketIds == 1..Len(sockets)
PureReads == {"info", "queue/0", "units", "slots", "log"}

\* The key has a registered socket that is open
RegisteredOpen(key) ==
  fahConnections[key] # 0 /\ sockets[fahConnections[key]].readyState = "OPEN"

\* This step is a call of getFAHConnection by call o
Acquires(o) ==
  /\ ops'[o].pc \in {"cmd_conn", "cmd_settle", "log_conn", "log_settle", "read_conn", "read_settle"}
  /\ \/ ops[o].pc = "idle"
     \/ ops[o].pc = "log_settle" /\ ops'[o].pc \in {"read_conn", "read_settle"}

\* This step is the close event or the error event of the opened socket s
ClosedOrErrored(s) ==
  /\ sockets[s].opened
  /\ \/ sockets[s].readyState # "CLOSED" /\ sockets'[s].readyState = "CLOSED"
     \/ sockets[s].error = "" /\ sockets'[s].error # ""

\* No textual key of at most 16 characters contains a hyphen
NormalizedKey(p) == Len(p) > 16 \/ \A i \in 1..Len(p) : p[i] # "-"

RECURSIVE KeysNormalized(_)
KeysNormalized(v) ==
  CASE v.t = "map" -> \A p \in DOMAIN v.m : NormalizedKey(p) /\ KeysNormalized(v.m[p])
    [] v.t = "list" -> \A i \in 1..Len(v.l) : KeysNormalized(v.l[i])
    [] OTHER -> TRUE

\* The fold of one frame into a document, as the contract states it
FoldFrame(doc, frame) ==
  CASE frame.t = "list" -> applyStateUpdate(doc, frame)
    [] frame.t = "map" -> frame
    [] OTHER -> doc

\* The three path conventions of the HTTP fallback, in the documented order
DocumentedCandidates(endpoint) ==
  << [prefix |-> "/api/", endpoint |-> endpoint],
     [prefix |-> "/", endpoint |-> endpoint],
     [prefix |-> "/api/v1/", endpoint |-> endpoint] >>

(***************************************************************************)
(* Properties.                                                             *)
(***************************************************************************)

\* C1: for every key, at most one socket created by getFAHConnection for
\* that key has not yet been closed.  The code violates it: two calls for one
\* key issued before the first handshake completes each create a socket.
OneLiveSocketPerKey ==
  \A k \in Keys :
    Cardinality({s \in SocketIds : sockets[s].key = k /\ sockets[s].readyState # "CLOSED"}) <= 1

\* C2: when the settle delay of a write command whose frame was sent ends
\* and no document is stored, the call returns the 'no state available'
\* failure and no HTTP fallback request is issued.  The code violates it for
\* pause and unpause: fahRequest goes on to the HTTP fallback.
WriteNeverFallsBack ==
  [][\A o \in OpIds :
       (ops[o].pc = "cmd_settle" /\ ops'[o].pc # "cmd_settle"
          /\ ~Truthy(machineData[ops[o].key]))
       => (ops'[o].pc = "done" /\ ops'[o].result = Failure(NoState) /\ ops'[o].http = <<>>)]_vars

\* C3: when the connection of a pure read cannot be acquired (refusal or
\* connect timeout), the router goes on to the HTTP fallback candidates
\* instead of returning the connection failure.  The code violates it: the
\* read returns the failure at once.
ReadFallsBackOnConnectFailure ==
  [][\A o \in OpIds :
       (ops[o].pc = "read_conn" /\ ops'[o].pc # "read_conn"
          /\ sockets'[ops[o].ws].readyState # "OPEN")
       => (ops'[o].pc = "http" /\ ops'[o].http = <<DocumentedCandidates(ops[o].endpoint)[1]>>)]_vars

\* C4: every frame received on a connection is folded into the stored
\* document in one step, in arrival order: a list frame op gives
\* doc := apply(doc, op), a map frame m gives doc := m.  The code violates it
\* for a list of fewer than 2 elements received while no document is stored:
\* it stores an empty document.
FramesFoldInOrder ==
  [][\A s \in SocketIds, f \in Frames :
       Message(FoldLim, s, f)
       => machineData'[sockets[s].key] = FoldFrame(machineData[sockets[s].key], f)]_vars

\* C5: the close event or error event of the socket registered for a key
\* leaves the key without a registered socket and without a document, and a
\* getFAHConnection for a key without a registered socket creates a new
\* socket, which starts a new handshake, rather than returning an old one.
TeardownClearsState ==
  [][/\ \A s \in SocketIds :
          (ClosedOrErrored(s) /\ fahConnections[sockets[s].key] = s)
          => (fahConnections'[sockets[s].key] = 0 /\ machineData'[sockets[s].key] = Undef)
     /\ \A o \in OpIds :
          (Acquires(o) /\ fahConnections[ops'[o].key] = 0)
          => /\ Len(sockets') = Len(sockets) + 1
             /\ ops'[o].ws = Len(sockets')
             /\ sockets'[Len(sockets')].key = ops'[o].key
             /\ sockets'[Len(sockets')].readyState = "CONNECTING"]_vars

\* Witness of C5: the first socket was opened, delivered a frame and was
\* closed, nothing is left of it, and a second socket for the key connects.
TeardownWitness ==
  /\ Len(sockets) = 2
  /\ sockets[1].opened /\ sockets[1].readyState = "CLOSED"
  /\ nFrames = 1
  /\ sockets[2].key = sockets[1].key /\ sockets[2].readyState = "CONNECTING"
  /\ fahConnections[sockets[1].key] = 0
  /\ machineData[sockets[1].key] = Undef

\* C6: a getFAHConnection for a key whose registered socket is open returns
\* that socket, creates no socket and starts no handshake.
ReuseOpenConnection ==
  [][\A o \in OpIds :
       (Acquires(o) /\ RegisteredOpen(ops'[o].key))
       => LET s == fahConnections[ops'[o].key]
          IN /\ ops'[o].ws = s
             /\ Len(sockets') = Len(sockets)
             /\ fahConnections' = fahConnections
             /\ \A t \in SocketIds : sockets'[t].readyState = sockets[t].readyState
             /\ \/ sockets' = sockets
                \/ \E f \in {LogEnable} \cup {CommandFrame(e) : e \in WriteEndpoints} :
                     sockets' = Send(sockets, s, f)]_vars

\* Witness of C6: the second of two calls holds the socket the first one
\* created, which is still the only socket and open.
ReuseWitness ==
  /\ nCalls = 2
  /\ Len(sockets) = 1
  /\ sockets[1].readyState = "OPEN"
  /\ \E o \in OpIds : ops[o].ws = 1 /\ ops[o].pc \in {"cmd_settle", "log_settle", "read_settle"}

\* C7: every map key anywhere in a stored document satisfies the
\* normalized-key rule.  The code violates it: a full-state frame is stored
\* as received, and so is a map given as the value of an operation.
StoredKeysNormalized ==
  \A k \in Keys : KeysNormalized(machineData[k])

\* C8: the HTTP fallback requests /api/E, /E, /api/v1/E in this order, a
\* candidate only after every earlier one failed; it returns success with the
\* body of the first candidate that answers, and a failure when all three
\* failed.
HttpFallbackOrder ==
  \A o \in OpIds :
    LET h == ops[o].http
        a == ops[o].answers
    IN /\ Len(h) <= 3
       /\ h = SubSeq(DocumentedCandidates(ops[o].endpoint), 1, Len(h))
       /\ Len(a) <= Len(h)
       /\ \A i \in 1..Len(a) : i < Len(h) => ~a[i].ok
       /\ ops[o].pc = "http" => Len(a) = Len(h) - 1
       /\ (ops[o].pc = "done" /\ h # <<>>)
          => /\ Len(a) = Len(h)
             /\ a[Len(a)].ok => ops[o].result = Success(a[Len(a)].body)
             /\ ~a[Len(a)].ok => (Len(h) = 3 /\ ~ops[o].result.success)

\* Witness of C8: the first candidate failed and the second one answered
HttpFallbackWitness ==
  \E o \in OpIds :
    /\ ops[o].pc = "done"
    /\ Len(ops[o].http) = 2
    /\ ops[o].answers[2].ok
    /\ ops[o].result.success

\* C9: a pure read issued while a document is stored returns the view of
\* that document and causes no network activity.  The code violates it for
\* log, which first sends a log-enable frame on the connection.
ReadFromStoredDocument ==
  [][\A o \in OpIds :
       (ops[o].pc = "idle" /\ ops'[o].pc # "idle" /\ ops'[o].endpoint \in PureReads
          /\ machineData[ops'[o].key] # Undef)
       => /\ ops'[o].pc = "done"
          /\ ops'[o].result.success
          /\ ops'[o].result.data = Projection(ops'[o].endpoint, machineData[ops'[o].key]).data
          /\ sockets' = sockets]_vars

\* C10: a pure read that acquired its connection returns, at the end of the
\* settle window, success with the view of the stored document exactly when
\* a document is stored, and the timeout failure otherwise.  The code violates
\* it when the view of the stored document raises a TypeError.
ReadAfterSettle ==
  [][\A o \in OpIds :
       (ops[o].pc = "read_settle" /\ ops'[o].pc # "read_settle")
       => /\ ops'[o].pc = "done"
          /\ ops'[o].result.success = (machineData[ops[o].key] # Undef)
          /\ machineData[ops[o].key] = Undef
             => ops'[o].result = Failure(InitialStateTimeout)]_vars

\* The acquire of socket s failed: an error or the connect timeout came
\* before its handshake completed
FailedAcquire(s) == ~sockets[s].opened /\ sockets[s].error # ""

\* C11: when the connect timeout fires or the socket reports an error before
\* its handshake completes, the call awaiting the socket is told of the
\* failure (it stops waiting and nothing is sent on the socket), and from
\* then on the socket is never registered for its key, never opens, and no
\* document is stored through it: a document stored later for the key comes
\* from another socket, which is open.
FailedAcquireRegistersNothing ==
  [][\A s \in SocketIds :
       /\ (~FailedAcquire(s) /\ FailedAcquire(s)')
          => /\ sockets'[s].sent = <<>>
             /\ \A o \in Waiters(s) :
                  /\ ops'[o].pc \notin {"cmd_conn", "log_conn", "read_conn", "cmd_settle", "read_settle"}
                  /\ ops[o].pc = "read_conn" => ops'[o].result = Failure(sockets'[s].error)
                  /\ ops[o].pc = "cmd_conn" => ops'[o].pc \in {"done", "http"}
       /\ FailedAcquire(s)
          => /\ FailedAcquire(s)'
             /\ fahConnections'[sockets[s].key] # s
             /\ sockets'[s].readyState \in {"CLOSING", "CLOSED"}
             /\ sockets'[s].sent = <<>>
             /\ (machineData'[sockets[s].key] # machineData[sockets[s].key]
                   /\ machineData'[sockets[s].key] # Undef)
                => \E t \in SocketIds \ {s} :
                     sockets[t].key = sockets[s].key /\ sockets[t].readyState = "OPEN"]_vars

\* Witness of C11: the first socket failed before its handshake and is
\* closed, its caller has the failure, and the document stored for the key
\* came through the second socket, which is the registered one.
FailedAcquireWitness ==
  /\ Len(sockets) = 2
  /\ FailedAcquire(1) /\ sockets[1].readyState = "CLOSED"
  /\ sockets[2].key = sockets[1].key
  /\ fahConnections[sockets[1].key] = 2
  /\ machineData[sockets[1].key] # Undef
  /\ \E o \in OpIds : ops[o].ws = 1 /\ ops[o].pc = "done" /\ ~ops[o].result.success

\* The result has the form {success: true, data} or {success: false, error}
ResultObject(r) ==
  /\ "success" \in DOMAIN r
  /\ IF r.success THEN DOMAIN r = {"success", "data"} ELSE DOMAIN r = {"success", "error"}

\* C12: every call of fahRequest or fahWebSocketCommand that was started
\* eventually completes, and a completed call has a result object (success
\* with data or failure with an error): whatever the transport does, the
\* call neither stays pending for ever nor ends without a result.
EveryCallCompletes ==
  /\ [](\A o \in LiveOps : ops[o].pc = "done" => ResultObject(ops[o].result))
  /\ \A o \in LiveOps :
       (ops[o].pc \notin {"idle", "done"}) ~> (ops[o].pc = "done" /\ ResultObject(ops[o].result))

\* Witness of C12: a command whose connection was refused and whose three
\* fallback candidates all failed has completed with a failure.
EveryCallCompletesWitness ==
  \E o \in LiveOps :
    /\ ops[o].pc = "done"
    /\ ops[o].endpoint = "pause"
    /\ Len(ops[o].answers) = 3
    /\ ops[o].result = Failure(RefusedOrTimedOut)
    /\ FailedAcquire(ops[o].ws)

\* C13: a request of the proxy route that names an instance that is not
\* configured ends with the 'Instance not found' failure, and one that names
\* a configured instance that is disabled ends with the 'Instance is
\* disabled' failure; in both cases no socket is created, no frame is sent,
\* no HTTP fallback request is made and the registry and the documents are
\* unchanged.
UnknownOrDisabledInstance ==
  [][\A o \in InstancesOps, id \in InstanceIds, e \in Endpoints :
       LET index == FindIndex(instances, id)
       IN (Proxy(InstancesLim, o, id, e) /\ (index = 0 \/ ~instances[index].enabled))
          => /\ ops'[o].pc = "done"
             /\ ops'[o].result =
                  Failure(IF index = 0 THEN InstanceNotFound ELSE InstanceDisabled)
             /\ ops'[o].http = <<>> /\ ops'[o].ws = 0
             /\ sockets' = sockets
             /\ fahConnections' = fahConnections
             /\ machineData' = machineData]_vars

\* Witness of C13: a request for the disabled instance has ended with the
\* failure while no socket was ever created.
UnknownOrDisabledWitness ==
  /\ \E i \in 1..Len(instances) : instances[i].id = "instance-1" /\ ~instances[i].enabled
  /\ FindIndex(instances, "instance-1") # 0
  /\ ~instances[FindIndex(instances, "instance-1")].enabled
  /\ \E o \in InstancesOps : ops[o].pc = "done" /\ ops[o].result = Failure(InstanceDisabled)
  /\ sockets = <<>>

\* C14: a frame that cannot be decoded leaves the stored document, the
\* registry and the calls as they were and the socket open; on a socket that
\* received such a frame, later frames are folded as on any other: a map
\* frame replaces the document, an update operation is applied to it.
UndecodableFrameIsolated ==
  [][\A s \in SocketIds, f \in Frames :
       Message(FoldLim, s, f)
       => LET key == sockets[s].key
          IN /\ f = Undecodable
                => /\ machineData' = machineData
                   /\ fahConnections' = fahConnections
                   /\ ops' = ops
                   /\ sockets'[s].readyState = "OPEN"
             /\ (sockets[s].undecoded > 0 /\ f.t = "map") => machineData'[key] = f
             /\ (sockets[s].undecoded > 0 /\ f.t = "list" /\ Len(f.l) >= 2)
                => machineData'[key] =
                     applyStateUpdate(IF machineData[key] = Undef THEN EmptyMap
                                      ELSE machineData[key], f)]_vars

\* Witness of C14: a registered, open socket received three frames, one of
\* them undecodable, and the document is the full state with the update
\* operation applied.
UndecodableFrameWitness ==
  \E s \in SocketIds :
    /\ sockets[s].undecoded = 1 /\ nFrames = 3
    /\ sockets[s].readyState = "OPEN" /\ fahConnections[sockets[s].key] = s
    /\ machineData[sockets[s].key] = applyStateUpdate(FullInfo, OpSetUnit)

\* C15: on every socket the log-enable frame is sent when the handshake
\* completes and is the first frame sent: nothing is sent on a socket that
\* has not opened, and the frames of an opened socket start with the
\* log-enable frame, before the frame of any call.
LogEnableFirst ==
  \A s \in SocketIds :
    /\ sockets[s].opened <=> sockets[s].sent # <<>>
    /\ sockets[s].sent # <<>> => sockets[s].sent[1] = LogEnable

\* Witness of C15: a socket on which the log-enable frame was followed by
\* the command frame of a pause.
LogEnableFirstWitness ==
  \E s \in SocketIds : sockets[s].sent = <<LogEnable, CommandFrame("pause")>>

\* Some hyphen is left in the text
HasHyphen(text) == \E i \in 1..Len(text) : text[i] = "-"

\* C16: applyStateUpdate(D, op) leaves D as it was: after the call every
\* cell of D holds what it held before and D has the same contents, whether
\* the operation was applied or rejected.
InputNotMutated ==
  call.fn = "applyStateUpdate"
  => /\ \A a \in 1..call.docCells : call.after[a] = call.before[a]
     /\ Load(call.after, call.docSlot) = call.doc

\* Witness of C16: an operation was applied to a document with a list, the
\* result differs from the document, and the result is another object.
InputNotMutatedWitness ==
  /\ call.fn = "applyStateUpdate"
  /\ call.doc = Map(kUnits :> List(<<Map(kSlot :> Num(0)), Num(1)>>))
  /\ call.op = List(<<Str(kUnits), Num(0), Null>>)
  /\ Load(call.after, call.result) = Map(kUnits :> List(<<Num(1)>>))
  /\ call.result # call.docSlot

\* C17: for an operation that is no list or has fewer than 2 elements,
\* applyStateUpdate(D, op) returns D, with the same contents, for every D
\* (a map or not), and ends without an error.
MalformedOperationReturnsInput ==
  (call.fn = "applyStateUpdate" /\ (call.op.t # "list" \/ Len(call.op.l) < 2))
  => /\ call.result = call.docSlot
     /\ Load(call.after, call.result) = call.doc

\* Witness of C17: a one-element list was given for an absent document
MalformedOperationWitness ==
  /\ call.fn = "applyStateUpdate"
  /\ call.op = ShortList
  /\ call.doc = Undef
  /\ call.result = Undef

\* C18: normalizePropertyKey gives, for a text key of at most 16
\* characters, the key with every hyphen replaced by an underscore and
\* nothing else changed; for a longer text key and for a key that is no text
\* it gives the key unchanged.
KeyNormalizer ==
  call.fn = "normalizePropertyKey"
  => IF call.key.t = "str" /\ Len(call.key.s) <= 16
     THEN /\ call.result.t = "str"
          /\ Len(call.result.s) = Len(call.key.s)
          /\ ~HasHyphen(call.result.s)
          /\ \A i \in 1..Len(call.key.s) :
               call.result.s[i] = (IF call.key.s[i] = "-" THEN "_" ELSE call.key.s[i])
     ELSE call.result = call.key

\* Witness of C18: a key of exactly 16 characters with hyphens was normalized
KeyNormalizerWitness ==
  /\ call.fn = "normalizePropertyKey"
  /\ call.key = Str(kSixteen)
  /\ call.result # call.key

\* C19: in every state the instance list holds the instance with id 'local',
\* whatever files were loaded and whatever instances were added or removed;
\* a request to remove 'local' is answered with the 400 refusal and leaves
\* the instance list as it was.
LocalInstanceKept ==
  /\ [](FindIndex(instances, "local") # 0)
  /\ [][RemoveInstance("local")
         => /\ response' = Refused(400, CannotRemoveLocal)
            /\ instances' = instances]_vars

\* Witness of C19: a file with a remote instance and an own entry for
\* 'local' was loaded, and the removal of 'local' was refused with the list
\* still holding the default local instance and the remote one.
LocalInstanceKeptWitness ==
  /\ response = Refused(400, CannotRemoveLocal)
  /\ Len(instances) > 1
  /\ instances[1] = LocalInstance
  /\ \E i \in 2..Len(instances) : instances[i].id = "instance-1"

\* The steps that belong to key k: the calls made for it, the events of the
\* sockets created for it and the continuations of its calls
OnKey(L, k) ==
  \/ \E o \in OpIds, e \in L.endpoints :
        StartWrite(L, o, k, e) \/ StartLog(L, o, k) \/ StartRead(L, o, k, e)
  \/ \E s \in 1..Len(sockets) :
        /\ sockets[s].key = k
        /\ \/ Open(s) \/ ConnectTimeout(s) \/ PeerClose(s) \/ SocketError(s) \/ Close(s)
           \/ \E e \in L.connectErrors : ConnectError(s, e)
           \/ \E f \in L.frames : Message(L, s, f)
  \/ \E o \in OpIds :
        /\ ops[o].key = k
        /\ \/ CommandSettled(o) \/ LogSettled(L, o) \/ ReadSettled(o) \/ Return(o)
           \/ \E b \in L.httpBodies : HttpAnswer(o, b)
           \/ \E e \in L.httpErrors : HttpFail(o, e)

\* C20: for two distinct connection keys, a call for the first key, and a
\* frame, a close event, an error event, a failed or completed connect of
\* a socket of the first key, leave the registered connection and the stored
\* document of the second key as they were, and change no call made for
\* the second key.
KeysIndependent ==
  [][\A k1 \in Keys : \A k2 \in Keys \ {k1} :
       OnKey(AggregateLim, k1)
       => /\ fahConnections'[k2] = fahConnections[k2]
          /\ machineData'[k2] = machineData[k2]
          /\ \A o \in AggregateOps : ops[o].key = k2 => ops'[o] = ops[o]]_vars

\* Witness of C20: the connection of one key has failed after it was
\* opened, its entries are gone, and the other key is still registered on
\* an open socket with its document stored.
KeysIndependentWitness ==
  \E k1 \in Keys : \E k2 \in Keys \ {k1} :
    /\ \E s \in 1..Len(sockets) :
         sockets[s].key = k1 /\ sockets[s].opened /\ sockets[s].readyState = "CLOSED"
    /\ fahConnections[k1] = 0
    /\ fahConnections[k2] # 0
    /\ sockets[fahConnections[k2]].readyState = "OPEN"
    /\ machineData[k2] # Undef

(***************************************************************************)
(* Vocabulary of the properties of applyStateUpdate: the operation of the  *)
(* last call, the container its path reaches in the document, and the      *)
(* document with that container replaced.                                  *)
(***************************************************************************)
\* The last call was applyStateUpdate with an operation of at least two
\* elements and a document that is a JSON value (no holes), as the one
\* caller of applyStateUpdate passes it (217-218)
Applied ==
  /\ call.fn = "applyStateUpdate"
  /\ call.op.t = "list" /\ Len(call.op.l) >= 2
  /\ Clone(call.doc) = call.doc

\* The document the operation starts from, the path, the final key and the
\* final value of the operation, and the document returned
StartDoc == IF call.doc.t = "map" THEN call.doc ELSE EmptyMap
OpPath == SubSeq(call.op.l, 1, Len(call.op.l) - 2)
FinalKey == normalizePropertyKey(call.op.l[Len(call.op.l) - 1])
FinalValue == call.op.l[Len(call.op.l)]
Returned == Load(call.after, call.result)

\* The value found by following path from v; Undef when a segment is missing
RECURSIVE Reach(_, _)
Reach(v, path) ==
  IF path = <<>> THEN v
  ELSE IF ~IsContainer(v) THEN Undef
  ELSE Reach(Get(v, normalizePropertyKey(Head(path))), Tail(path))

\* v with the value at the end of path replaced by new
RECURSIVE Replace(_, _, _)
Replace(v, path, new) ==
  IF path = <<>> THEN new
  ELSE LET key == normalizePropertyKey(Head(path))
       IN Put(v, key, Replace(Get(v, key), Tail(path), new))

\* The container at the end of the path of the operation
Parent == Reach(StartDoc, OpPath)

\* C21: when the path of an operation ends at a list L of the document, the
\* final key -1 gives the document with the final value, whatever it is,
\* added to L as its last element; the final key -2 with a list as value
\* gives the document with the elements of that list added to L in their
\* order; the final key -2 with a value that is no list gives the document
\* with L as it was.
ListAppend ==
  (Applied /\ Parent.t = "list")
  => /\ FinalKey = Num(-1)
        => Returned = Replace(StartDoc, OpPath, List(Append(Parent.l, FinalValue)))
     /\ (FinalKey = Num(-2) /\ FinalValue.t = "list")
        => Returned = Replace(StartDoc, OpPath, List(Parent.l \o FinalValue.l))
     /\ (FinalKey = Num(-2) /\ FinalValue.t # "list")
        => Returned = StartDoc

\* Witness of C21: two elements were added by a bulk append to a list of
\* two elements
ListAppendWitness ==
  /\ Applied
  /\ call.doc = Map(kUnits :> List(<<Map(kSlot :> Num(0)), Num(1)>>))
  /\ call.op = List(<<Str(kUnits), Num(-2), List(<<Num(1), Num(2)>>)>>)
  /\ Returned = Map(kUnits :> List(<<Map(kSlot :> Num(0)), Num(1), Num(1), Num(2)>>))

\* applyStateUpdate(doc, op) called once more, as a value
Apply(doc, op) ==
  LET d == Alloc(<<>>, doc)
      u == Alloc(d.h, op)
      r == applyStateUpdateOnHeap(u.h, d.slot, u.slot)
  IN Load(r.h, r.slot)

\* The map without the property name
Without(map, name) == Map([p \in DOMAIN map.m \ {name} |-> map.m[p]])

\* C22: when the path of an operation ends at a map M of the document and
\* the final value is null, the result is the document with the (normalized)
\* final key removed from M and every other key and value as before; when M
\* has no such key the result has the contents of the document; and the
\* same operation applied to the result gives the result again.
MapDelete ==
  (Applied /\ Parent.t = "map" /\ FinalValue = Null)
  => /\ Returned = Replace(StartDoc, OpPath, Without(Parent, PropName(FinalKey)))
     /\ PropName(FinalKey) \notin DOMAIN Reach(Returned, OpPath).m
     /\ PropName(FinalKey) \notin DOMAIN Parent.m => Returned = StartDoc
     /\ Apply(Returned, call.op) = Returned

\* Witness of C22: a key given with a hyphen was deleted from a map of two
\* keys, and the other key is left
MapDeleteWitness ==
  /\ Applied
  /\ call.doc = Map((kWorkUnitN :> Num(1)) @@ (kX :> Num(1)))
  /\ call.op = List(<<Str(kWorkUnit), Null>>)
  /\ Returned = Map(kX :> Num(1))

\* C23: when the path of an operation ends at a list L of the document, the
\* final key is an integer i >= 0 and the final value is null: for
\* i < length(L) the result is the document with the element at index i
\* taken out of L, the elements before and after it in their order and L
\* one shorter; for i >= length(L) the result is the document with L as it
\* was.
ListDelete ==
  (Applied /\ Parent.t = "list" /\ FinalKey.t = "num" /\ FinalKey.n >= 0 /\ FinalValue = Null)
  => IF FinalKey.n < Len(Parent.l)
     THEN /\ Returned = Replace(StartDoc, OpPath,
                                List(SubSeq(Parent.l, 1, FinalKey.n)
                                       \o SubSeq(Parent.l, FinalKey.n + 2, Len(Parent.l))))
          /\ Len(Reach(Returned, OpPath).l) = Len(Parent.l) - 1
     ELSE Returned = StartDoc

\* Witness of C23: the middle element of a nested list of three was removed
ListDeleteWitness ==
  /\ Applied
  /\ call.doc = Map(kInfo :> Map(kUnits :> List(<<Num(1), Num(2), Num(3)>>)))
  /\ call.op = List(<<Str(kInfo), Str(kUnits), Num(1), Null>>)
  /\ Returned = Map(kInfo :> Map(kUnits :> List(<<Num(1), Num(3)>>)))

\* The first j elements of the operation, a path into the document
Prefix(j) == SubSeq(call.op.l, 1, j)

\* The segment at position j of the path was missing from the document (or
\* null) and the result holds the container created for it
Created(j) ==
  /\ IsNullish(Reach(StartDoc, Prefix(j)))
  /\ IsContainer(Reach(Returned, Prefix(j)))

\* A container the path passes in the document is of the same kind in the
\* result
ExistingKept ==
  \A j \in 1..Len(OpPath) :
    IsContainer(Reach(StartDoc, Prefix(j)))
    => Reach(Returned, Prefix(j)).t = Reach(StartDoc, Prefix(j)).t

\* C24, as stated: the container created for a missing segment of the path
\* is a list if and only if the next element of the operation is an integer
\* >= 0, and a map in every other case (a negative integer, a text); the
\* containers that exist on the path are not replaced.
CreatedForNonNegative ==
  Applied
  => /\ \A j \in 1..Len(OpPath) :
          Created(j)
          => (Reach(Returned, Prefix(j)).t = "list"
                <=> (call.op.l[j + 1].t = "num" /\ call.op.l[j + 1].n >= 0))
     /\ ExistingKept

\* C24, amended: the container created for a missing segment of the path is
\* a list if and only if the next element of the operation is an integer,
\* negative ones such as -1 and -2 included, and a map in every other case;
\* the containers that exist on the path are not replaced.
CreatedForInteger ==
  Applied
  => /\ \A j \in 1..Len(OpPath) :
          Created(j)
          => (Reach(Returned, Prefix(j)).t = "list" <=> call.op.l[j + 1].t = "num")
     /\ ExistingKept

\* Witness of C24: an append to a list the document does not have created
\* the list
CreatedForIntegerWitness ==
  /\ Applied
  /\ call.doc = EmptyMap
  /\ call.op = List(<<Str(kUnits), Num(-1), Num(7)>>)
  /\ Created(1)
  /\ Returned = Map(kUnits :> List(<<Num(7)>>))

\* The path of the operation, or the parent of its final key, is a number, a
\* text or a boolean of the document
Blocked ==
  \E j \in 1..Len(OpPath) : Reach(StartDoc, Prefix(j)).t \in {"num", "str", "bool"}

\* C25: when the path of an operation leads into a value of the document
\* that is a number, a text or a boolean, at a segment of the path or as the
\* parent of the final key, applyStateUpdate returns the document it was
\* given, the same object with the contents it had, and no container made
\* during the traversal is part of it.
BlockedPathReturnsInput ==
  (Applied /\ Blocked)
  => /\ call.result = call.docSlot
     /\ Returned = call.doc
     /\ \A a \in 1..call.docCells : call.after[a] = call.before[a]

\* Witness of C25: the path went through an existing map into a boolean
\* two segments before its end
BlockedPathWitness ==
  /\ Applied /\ Blocked
  /\ call.doc = Map((kX :> Str(kInfo)) @@ (kInfo :> Map(kCpus :> Bool(TRUE))))
  /\ call.op = List(<<Str(kInfo), Str(kCpus), Str(kX), Str(kX), Num(1)>>)
  /\ Returned = call.doc

\* applyStateUpdate gives, for a document that is no map and an operation of
\* at least two elements, the map it gives for the empty map
NonMapTreatedAsEmpty ==
  \A doc \in PatchDocs, op \in PatchOps :
    (doc.t # "map" /\ op.t = "list" /\ Len(op.l) >= 2)
    => /\ applyStateUpdate(doc, op) = applyStateUpdate(EmptyMap, op)
       /\ applyStateUpdate(doc, op).t = "map"

\* C26: in every reachable state the document stored for a key, if there is
\* one, has a map as its root, whatever list, map, scalar and undecodable
\* frames were received; and applyStateUpdate called with a document that is
\* no map gives what it gives for the empty map.
StoredRootIsMap ==
  /\ \A k \in Keys : machineData[k] # Undef => machineData[k].t = "map"
  /\ NonMapTreatedAsEmpty

\* Witness of C26: a scalar frame, an undecodable frame and a list frame
\* were received on a connection, and the document stored is the map the
\* list frame made
StoredRootIsMapWitness ==
  \E s \in SocketIds :
    /\ sockets[s].undecoded = 1 /\ nFrames = 3
    /\ machineData[sockets[s].key] = applyStateUpdate(EmptyMap, OpSetUnit)

\* C27: at the step that registers a newly created socket for its key (its
\* handshake completes), no document is stored for that key, so that a
\* document made by the frames of an earlier socket of the key is not read
\* through the newer registration.
NoDocumentAtRegistration ==
  [][\A s \in SocketIds :
       Open(s) => machineData'[sockets[s].key] = Undef]_vars

\* C28: whenever the close or the error event of a socket removes the
\* registry entry or the document of its key, that socket is the one
\* registered for the key: the event of a socket that a newer socket of the
\* key has superseded takes neither the newer registration nor the
\* document away.
OnlyRegisteredSocketCleansUp ==
  [][\A s \in SocketIds :
       ( /\ Close(s) \/ SocketError(s)
         /\ \/ fahConnections'[sockets[s].key] # fahConnections[sockets[s].key]
            \/ machineData'[sockets[s].key] # machineData[sockets[s].key] )
       => fahConnections[sockets[s].key] = s]_vars

\* C29: in every reachable state a key that has a document stored has a
\* socket registered: frames are folded into the document table only for a
\* key whose connection is registered, and no document is left or comes back
\* after the registration of the key was removed.
DocumentOnlyWhileRegistered ==
  \A k \in Keys : machineData[k] # Undef => fahConnections[k] # 0

\* C30: a frame that is a list of fewer than 2 elements does not change the
\* document of its key: a stored document keeps its contents and an absent
\* one stays absent, so that a read made afterwards finds no document and a
\* write command reports that no state is available.
ShortListFrameChangesNothing ==
  [][\A s \in SocketIds : \A data \in Frames :
       (Message(FoldLim, s, data) /\ data.t = "list" /\ Len(data.l) < 2)
       => machineData'[sockets[s].key] = machineData[sockets[s].key]]_vars

====
